---------------------------- MODULE Spec2Model ----------------------------
(***************************************************************************)
(* Document element model of p2m_paddle (src/src/pdf/pdf.py): pages of     *)
(* (key, element) entries, the safe-area evaluator, the chain              *)
(* reconstructor, the editing operations and the text views.               *)
(*                                                                         *)
(* Representation.  A text is a sequence of tokens; SP, NL and OMIT stand  *)
(* for " ", "\n" and the omission marker of get_page_text.  A margin is    *)
(* kept in hundredths (0.15 is 15), so the safe rectangle is computed in   *)
(* hundredths of a page unit and a bounding box is scaled by Scale before  *)
(* the overlap test.  Python's None is NoContd for a continuation marker,  *)
(* NoKey for a key and the empty sequence for a translated text (the       *)
(* viewer stores only non-empty translations).  chains[h] holds the head   *)
(* element by reference in the code; here the reference is the head's key. *)
(* The element type (src/pdf/pdf_element.py) is not part of the sources:   *)
(* its operations are modelled from the specification and marked so.       *)
(***************************************************************************)
EXTENDS Integers, Sequences, FiniteSets, TLC

VARIABLES
  pages,      \* context.pages: sequence of [width, height, elements]
  index,      \* context.index: the key counter
  margin,     \* context.margin, in hundredths
  chains,     \* Pdf.chains: head key -> [head, text]
  to_chain,   \* Pdf.to_chain: key -> head key
  last,       \* the last call: its name, arguments, res (returned/raised) and ret
  pre,        \* the context and indexes as they were before the last call
  removed,    \* history: every key that has been taken off the pages
  steps,      \* number of calls made so far
  out,        \* the last query: [q, arg, res, val]
  disk,       \* the snapshot file of the document: [kind, data]
  jobs,       \* PDFViewer._translation_jobs: the head keys with a job
  threads     \* the background workers started and not yet finished

vars == <<pages, index, margin, chains, to_chain, last, pre, removed, steps, out,
          disk, jobs, threads>>

\* ------------------------------------------------------------------ bounds
MaxOps == 2

\* --------------------------------------------------------------- constants
NoKey == -1
NoContd == 0
Concat == 1
Join == 2
Scale == 100

SP == "SP"
NL == "NL"
OMIT == "OMIT"

\* ---------------------------------------------------------------- helpers
Put(f, k, v) == [x \in (DOMAIN f) \cup {k} |-> IF x = k THEN v ELSE f[x]]

Get(f, k) == IF k \in DOMAIN f THEN f[k] ELSE NoKey

RECURSIVE FlatFrom(_, _)
FlatFrom(pgs, p) ==
  IF p > Len(pgs) THEN <<>> ELSE pgs[p].elements \o FlatFrom(pgs, p + 1)

iter_elements(pgs) == FlatFrom(pgs, 1)

KeysOfPage(pg) == {pg.elements[i].key : i \in DOMAIN pg.elements}

KeysOf(pgs) == UNION {KeysOfPage(pgs[p]) : p \in DOMAIN pgs}

\* ----------------------------------------------------------- element type
PdfElement(text, bbox) ==
  [text |-> text, bbox |-> bbox, visible |-> TRUE, body |-> TRUE,
   safe |-> TRUE, contd |-> NoContd, translated |-> <<>>, children |-> <<>>]

toggle_continue(e) ==
  [e EXCEPT !.contd = IF @ = NoContd THEN Concat
                      ELSE IF @ = Concat THEN Join ELSE NoContd]

can_be_split(e) == Len(e.children) > 0

can_be_merged(e) == TRUE

RECURSIVE JoinTexts(_, _)
JoinTexts(es, sep) ==
  IF Len(es) = 0 THEN <<>>
  ELSE IF Len(es) = 1 THEN es[1].text
  ELSE es[1].text \o <<sep>> \o JoinTexts(Tail(es), sep)

Min(a, b) == IF a < b THEN a ELSE b
Max(a, b) == IF a > b THEN a ELSE b

RECURSIVE UnionBox(_)
UnionBox(es) ==
  IF Len(es) = 1 THEN es[1].bbox
  ELSE LET r == UnionBox(Tail(es))
           b == es[1].bbox
       IN <<Min(b[1], r[1]), Min(b[2], r[2]), Max(b[3], r[3]), Max(b[4], r[4])>>

from_merge(to_merge, mode) ==
  [text |-> JoinTexts(to_merge, IF mode = Concat THEN SP ELSE NL),
   bbox |-> UnionBox(to_merge), visible |-> TRUE, body |-> TRUE,
   safe |-> TRUE, contd |-> NoContd, translated |-> <<>>,
   children |-> to_merge]

\* -------------------------------------------------------------- safe area
check_overlap_Strict(rect1, rect2) ==
  IF rect1[1] >= rect2[3] \/ rect2[1] >= rect1[3] THEN FALSE
  ELSE IF rect1[2] >= rect2[4] \/ rect2[2] >= rect1[4] THEN FALSE
  ELSE TRUE

check_overlap(rect1, rect2) ==
  IF rect1[1] > rect2[3] \/ rect2[1] > rect1[3] THEN FALSE
  ELSE IF rect1[2] > rect2[4] \/ rect2[2] > rect1[4] THEN FALSE
  ELSE TRUE

safe_area(pg, m) ==
  <<pg.width * m.x1, pg.height * (Scale - m.y2),
    pg.width * m.x2, pg.height * (Scale - m.y1)>>

Scaled(bbox) == [i \in 1..4 |-> Scale * bbox[i]]

recalculate_safe_area(pgs, m) ==
  [p \in DOMAIN pgs |->
     [pgs[p] EXCEPT !.elements =
        [i \in DOMAIN pgs[p].elements |->
           [pgs[p].elements[i] EXCEPT !.el.safe =
              check_overlap(Scaled(pgs[p].elements[i].el.bbox),
                            safe_area(pgs[p], m))]]]]

\* ------------------------------------------------------ chain reconstructor
Eligible_NoBody(e) == e.visible /\ e.safe

Eligible(e) == e.visible /\ e.safe /\ e.body

ScanInit ==
  [chains |-> <<>>, to_chain |-> <<>>, last_head_key |-> NoKey,
   last_text |-> <<>>, prev_contd |-> NoContd]

\* The join rule: the marker of the previous eligible element picks the separator.
Separator_Swapped(prev_contd) == IF prev_contd = Concat THEN <<NL>> ELSE <<SP>>

Separator(prev_contd) == IF prev_contd = Concat THEN <<SP>> ELSE <<NL>>

\* A continuation whose own marker is None ends the chain.
Closes_Never(e) == FALSE

Closes_Always(e) == TRUE

Closes(e) == e.contd = NoContd

ScanStep(st, ent) ==
  IF ~Eligible(ent.el) THEN st
  ELSE IF st.last_head_key = NoKey
  THEN IF ent.el.contd # NoContd
       THEN [st EXCEPT !.last_head_key = ent.key,
                       !.last_text = ent.el.text,
                       !.to_chain = Put(@, ent.key, ent.key),
                       !.prev_contd = ent.el.contd]
       ELSE [st EXCEPT !.prev_contd = ent.el.contd]
  ELSE LET txt == st.last_text \o Separator(st.prev_contd) \o ent.el.text
           tc == Put(st.to_chain, ent.key, st.last_head_key)
       IN IF Closes(ent.el)
          THEN [st EXCEPT !.to_chain = tc,
                          !.chains = Put(@, st.last_head_key,
                                         [head |-> st.last_head_key, text |-> txt]),
                          !.last_head_key = NoKey,
                          !.last_text = <<>>,
                          !.prev_contd = ent.el.contd]
          ELSE [st EXCEPT !.to_chain = tc,
                          !.last_text = txt,
                          !.prev_contd = ent.el.contd]

RECURSIVE ScanFrom(_, _, _)
ScanFrom(st, flat, i) ==
  IF i > Len(flat) THEN st ELSE ScanFrom(ScanStep(st, flat[i]), flat, i + 1)

ScanEnd_Dropped(st) == st.chains

ScanEnd(st) ==
  IF st.last_head_key # NoKey
  THEN Put(st.chains, st.last_head_key,
           [head |-> st.last_head_key, text |-> st.last_text])
  ELSE st.chains

build_chain_list(pgs) ==
  LET st == ScanFrom(ScanInit, iter_elements(pgs), 1)
  IN [chains |-> ScanEnd(st), to_chain |-> st.to_chain]

\* ----------------------------------------------------------------- lookup
\* Position <<p, i>> (1-based) of the first entry with this key, <<0, 0>> if none.
Locate(pgs, key) ==
  LET hits == {<<p, i>> \in (DOMAIN pgs) \X (1..Len(iter_elements(pgs))) :
                 i \in DOMAIN pgs[p].elements /\ pgs[p].elements[i].key = key}
  IN IF hits = {} THEN <<0, 0>>
     ELSE CHOOSE h \in hits :
            \A g \in hits : h[1] < g[1] \/ (h[1] = g[1] /\ h[2] <= g[2])

get_element(pgs, key) == Locate(pgs, key)

Found(loc) == loc # <<0, 0>>

ElementAt(pgs, loc) == pgs[loc[1]].elements[loc[2]].el

\* ------------------------------------------------------- calls and results
\* A call maps the context and indexes c to [ctx, res, ret]: res is "returned"
\* or "raised" (an exception left the method), ret the returned value.
Ctx == [pages |-> pages, index |-> index, margin |-> margin,
        chains |-> chains, to_chain |-> to_chain]

Returned(c, ret) == [ctx |-> c, res |-> "returned", ret |-> ret]

Raised(c) == [ctx |-> c, res |-> "raised", ret |-> "None"]

Rebuilt(c) ==
  LET b == build_chain_list(c.pages)
  IN [c EXCEPT !.chains = b.chains, !.to_chain = b.to_chain]

\* --------------------------------------------------------- flag operations
set_safe_margin_NoRebuild(c, m) ==
  Returned([c EXCEPT !.margin = m, !.pages = recalculate_safe_area(c.pages, m)],
           "None")

set_safe_margin_RebuildFirst(c, m) ==
  Returned([Rebuilt([c EXCEPT !.margin = m])
              EXCEPT !.pages = recalculate_safe_area(c.pages, m)],
           "None")

set_safe_margin(c, m) ==
  Returned(Rebuilt([c EXCEPT !.margin = m,
                             !.pages = recalculate_safe_area(c.pages, m)]),
           "None")

toggle_visibility_Stale(c, key) ==
  LET loc == get_element(c.pages, key)
  IN IF ~Found(loc) THEN Raised(c)
     ELSE Returned([c EXCEPT !.pages[loc[1]].elements[loc[2]].el.visible = ~@],
                   "None")

\* e.visible = (not e.visible if e is not None else None): with e None the
\* assignment target itself raises AttributeError, before the rebuild.
toggle_visibility(c, key) ==
  LET loc == get_element(c.pages, key)
  IN IF ~Found(loc) THEN Raised(c)
     ELSE Returned(Rebuilt([c EXCEPT
            !.pages[loc[1]].elements[loc[2]].el.visible = ~@]), "None")

toggle_body_Both(c, key) ==
  LET loc == get_element(c.pages, key)
  IN IF ~Found(loc) THEN Raised(c)
     ELSE Returned(Rebuilt([c EXCEPT
            !.pages[loc[1]].elements[loc[2]].el.body = ~@,
            !.pages[loc[1]].elements[loc[2]].el.visible = ~@]), "None")

toggle_body(c, key) ==
  LET loc == get_element(c.pages, key)
  IN IF ~Found(loc) THEN Raised(c)
     ELSE Returned(Rebuilt([c EXCEPT
            !.pages[loc[1]].elements[loc[2]].el.body = ~@]), "None")

toggle_continue_op(c, key) ==
  LET loc == get_element(c.pages, key)
  IN IF ~Found(loc) THEN Returned(Rebuilt(c), "None")
     ELSE Returned(Rebuilt([c EXCEPT
            !.pages[loc[1]].elements[loc[2]].el = toggle_continue(@)]), "None")

\* --------------------------------------------------------------- sequences
InsertAt(s, i, x) == SubSeq(s, 1, i - 1) \o <<x>> \o SubSeq(s, i, Len(s))

RemoveAt(s, i) == SubSeq(s, 1, i - 1) \o SubSeq(s, i + 1, Len(s))

RECURSIVE InsertAll(_, _, _)
InsertAll(s, i, xs) ==
  IF Len(xs) = 0 THEN s ELSE InsertAll(InsertAt(s, i, Head(xs)), i + 1, Tail(xs))

SetMin(S) == CHOOSE x \in S : \A y \in S : x <= y

SetMax(S) == CHOOSE x \in S : \A y \in S : x >= y

\* ------------------------------------------------------------ split_element
\* One page of the scan: the first entry with the key that is safe, visible and
\* splittable is popped and its children are inserted at its place, child j
\* under the key idx + j; the break leaves this page only.
SplitIndex_Hidden(els, key) ==
  LET hit == {i \in DOMAIN els :
                /\ els[i].key = key
                /\ els[i].el.safe /\ can_be_split(els[i].el)}
  IN IF hit = {} THEN 0 ELSE SetMin(hit)

SplitIndex(els, key) ==
  LET hit == {i \in DOMAIN els :
                /\ els[i].key = key
                /\ els[i].el.safe /\ els[i].el.visible /\ can_be_split(els[i].el)}
  IN IF hit = {} THEN 0 ELSE SetMin(hit)

SplitPage_SameKey(els, i, idx) ==
  LET ch == els[i].el.children
  IN InsertAll(RemoveAt(els, i), i,
               [j \in 1..Len(ch) |-> [key |-> idx, el |-> ch[j]]])

SplitPage(els, i, idx) ==
  LET ch == els[i].el.children
  IN InsertAll(RemoveAt(els, i), i,
               [j \in 1..Len(ch) |-> [key |-> idx + j - 1, el |-> ch[j]]])

RECURSIVE SplitFrom(_, _, _)
SplitFrom(c, key, p) ==
  IF p > Len(c.pages) THEN c
  ELSE LET els == c.pages[p].elements
           i == SplitIndex(els, key)
       IN IF i = 0 THEN SplitFrom(c, key, p + 1)
          ELSE SplitFrom(
                 Rebuilt([c EXCEPT !.pages[p].elements = SplitPage(els, i, c.index),
                                   !.index = @ + Len(els[i].el.children)]),
                 key, p + 1)

split_element(c, key_to_split) == Returned(SplitFrom(c, key_to_split, 1), "None")

\* -------------------------------------------------------------------- merge
\* The indices collected by the two nested loops, in key_list order.
RECURSIVE Collect(_, _)
Collect(els, key_list) ==
  IF Len(key_list) = 0 THEN <<>>
  ELSE SelectSeq([i \in DOMAIN els |-> i],
                 LAMBDA i : /\ els[i].key = Head(key_list)
                            /\ els[i].el.safe /\ els[i].el.visible
                            /\ can_be_merged(els[i].el))
       \o Collect(els, Tail(key_list))

SeqRange(s) == {s[i] : i \in DOMAIN s}

MergePage_FirstListed(els, to_merge, idx, mode) ==
  LET insert_position == to_merge[1]
      staged == [i \in DOMAIN els |-> [ent |-> els[i], marked |-> i \in SeqRange(to_merge)]]
      new == [ent |-> [key |-> idx,
                       el |-> from_merge([j \in DOMAIN to_merge |-> els[to_merge[j]].el], mode)],
              marked |-> FALSE]
      kept == SelectSeq(InsertAt(staged, insert_position, new), LAMBDA x : ~x.marked)
  IN [i \in DOMAIN kept |-> kept[i].ent]

MergePage(els, to_merge, idx, mode) ==
  LET insert_position == SetMin(SeqRange(to_merge))
      staged == [i \in DOMAIN els |-> [ent |-> els[i], marked |-> i \in SeqRange(to_merge)]]
      new == [ent |-> [key |-> idx,
                       el |-> from_merge([j \in DOMAIN to_merge |-> els[to_merge[j]].el], mode)],
              marked |-> FALSE]
      kept == SelectSeq(InsertAt(staged, insert_position, new), LAMBDA x : ~x.marked)
  IN [i \in DOMAIN kept |-> kept[i].ent]

merge_SameIndex(c, page_number, key_list, concat_or_join) ==
  IF key_list.none \/ Len(key_list.ks) <= 0 THEN Returned(c, "None")
  ELSE IF page_number >= Len(c.pages) THEN Raised(c)
  ELSE LET els == c.pages[page_number + 1].elements
           to_merge == Collect(els, key_list.ks)
       IN IF Len(to_merge) < 2 THEN Returned(c, "None")
          ELSE Returned(
                 Rebuilt([c EXCEPT
                   !.pages[page_number + 1].elements =
                      MergePage(els, to_merge, c.index, concat_or_join)]),
                 "None")

\* key_list is [none, ks]: none says the argument is None.  page_number is
\* 0-based, as in the code.
merge(c, page_number, key_list, concat_or_join) ==
  IF key_list.none \/ Len(key_list.ks) <= 0 THEN Returned(c, "None")
  ELSE IF page_number >= Len(c.pages) THEN Raised(c)
  ELSE LET els == c.pages[page_number + 1].elements
           to_merge == Collect(els, key_list.ks)
       IN IF Len(to_merge) < 2 THEN Returned(c, "None")
          ELSE Returned(
                 Rebuilt([c EXCEPT
                   !.pages[page_number + 1].elements =
                      MergePage(els, to_merge, c.index, concat_or_join),
                   !.index = @ + 1]),
                 "None")

\* ------------------------------------------------------------- move_element
MoveIndex(els, key, other) ==
  LET hit == {i \in DOMAIN els :
                els[i].key = key /\ els[i].key # other
                /\ els[i].el.safe /\ els[i].el.visible}
  IN IF hit = {} THEN 0 ELSE SetMax(hit)

PivotIndex_Unsafe(els, key) ==
  LET hit == {i \in DOMAIN els : els[i].key = key /\ els[i].el.visible}
  IN IF hit = {} THEN 0 ELSE SetMax(hit)

PivotIndex(els, key) ==
  LET hit == {i \in DOMAIN els :
                els[i].key = key /\ els[i].el.safe /\ els[i].el.visible}
  IN IF hit = {} THEN 0 ELSE SetMax(hit)

MovePage_NoShift(els, pivot_index, move_index, disposition) ==
  LET element_to_move == els[move_index]
      offset == IF disposition = "after" THEN 1 ELSE 0
  IN InsertAt(RemoveAt(els, move_index), pivot_index + offset, element_to_move)

MovePage(els, pivot_index, move_index, disposition) ==
  LET element_to_move == els[move_index]
      pi == IF move_index < pivot_index THEN pivot_index - 1 ELSE pivot_index
      offset == IF disposition = "after" THEN 1 ELSE 0
  IN InsertAt(RemoveAt(els, move_index), pi + offset, element_to_move)

move_element(c, pivot_key, key_to_move, page_index, disposition) ==
  IF pivot_key = NoKey \/ key_to_move = NoKey \/ pivot_key = key_to_move
     \/ page_index >= Len(c.pages)
  THEN Returned(c, "None")
  ELSE LET els == c.pages[page_index + 1].elements
           pivot_index == PivotIndex(els, pivot_key)
           move_index == MoveIndex(els, key_to_move, pivot_key)
       IN IF pivot_index = 0 \/ move_index = 0 THEN Returned(c, "False")
          ELSE Returned(
                 Rebuilt([c EXCEPT !.pages[page_index + 1].elements =
                            MovePage(els, pivot_index, move_index, disposition)]),
                 "True")

\* ------------------------------------------------------------------ queries
\* A query result is [res, val]; a dictionary lookup of a missing key raises.
Flatten(chunks) ==
  LET F[i \in 0..Len(chunks)] == IF i = 0 THEN <<>> ELSE F[i - 1] \o chunks[i]
  IN F[Len(chunks)]

\* What the chain branch shared by get_text and get_page_text appends for one
\* safe and visible entry.  <<"KeyError">> marks the raise of chains[key].
ChainedChunk(c, ent) ==
  IF Get(c.to_chain, ent.key) # NoKey
  THEN IF c.to_chain[ent.key] = ent.key
       THEN IF ent.el.translated # <<>> THEN ent.el.translated \o <<NL>>
            ELSE IF ent.key \in DOMAIN c.chains
                 THEN c.chains[ent.key].text \o <<NL>>
                 ELSE <<"KeyError">>
       ELSE <<>>
  ELSE (IF ent.el.translated # <<>> THEN ent.el.translated ELSE ent.el.text)
       \o <<NL>>

TextChunk_NoSkip(c, ent) == ChainedChunk(c, ent)

TextChunk(c, ent) ==
  IF ~ent.el.safe \/ ~ent.el.visible THEN <<>> ELSE ChainedChunk(c, ent)

TextChunks(c) ==
  LET flat == iter_elements(c.pages)
  IN [i \in DOMAIN flat |-> TextChunk(c, flat[i])]

QueryResult(chunks) ==
  IF \E i \in DOMAIN chunks : chunks[i] = <<"KeyError">>
  THEN [res |-> "raised", val |-> <<>>]
  ELSE [res |-> "returned", val |-> Flatten(chunks)]

get_text(c) == QueryResult(TextChunks(c))

\* get_page_text: in_continue before entry i, then the chunk entry i appends.
RECURSIVE InContinue(_, _, _)
InContinue(c, els, i) ==
  IF i = 1 THEN TRUE
  ELSE LET ent == els[i - 1]
           before == InContinue(c, els, i - 1)
       IN IF ~ent.el.safe \/ ~ent.el.visible THEN before
          ELSE IF before /\ Get(c.to_chain, ent.key) = NoKey /\ ent.el.body
               THEN FALSE
               ELSE before

PageChunk_NoOmission(c, els, i) ==
  LET ent == els[i]
      after == InContinue(c, els, i + 1)
  IN IF ~ent.el.safe \/ ~ent.el.visible THEN <<>>
     ELSE IF ~after THEN ChainedChunk(c, ent) ELSE ent.el.text \o <<NL>>

PageChunk(c, els, i) ==
  LET ent == els[i]
      before == InContinue(c, els, i)
      after == InContinue(c, els, i + 1)
  IN IF ~ent.el.safe \/ ~ent.el.visible THEN <<>>
     ELSE (IF before /\ after /\ ent.el.body THEN <<OMIT, NL>> ELSE <<>>)
          \o (IF ~after THEN ChainedChunk(c, ent)
              ELSE IF ~ent.el.body THEN ent.el.text \o <<NL>> ELSE <<>>)

iter_elements_page(c, page_number) ==
  IF page_number < Len(c.pages) THEN c.pages[page_number + 1].elements ELSE <<>>

PageChunks(c, page) ==
  LET els == iter_elements_page(c, page)
  IN [i \in DOMAIN els |-> PageChunk(c, els, i)]

get_page_text(c, page) == QueryResult(PageChunks(c, page))

\* get_chained_text: the triple (key, element, text), the element given by the
\* key of its entry; NoneTriple is (None, None, None).
NoneTriple == [key |-> NoKey, el |-> NoKey, text |-> <<>>]

OwnTriple(c, key_to_find) ==
  LET loc == get_element(c.pages, key_to_find)
  IN IF Found(loc)
     THEN [key |-> key_to_find, el |-> key_to_find,
           text |-> ElementAt(c.pages, loc).text]
     ELSE NoneTriple

get_chained_text_Own(c, key_to_find) ==
  [res |-> "returned", val |-> OwnTriple(c, key_to_find)]

get_chained_text(c, key_to_find) ==
  IF Get(c.to_chain, key_to_find) = NoKey
  THEN [res |-> "returned", val |-> OwnTriple(c, key_to_find)]
  ELSE LET key == c.to_chain[key_to_find]
       IN IF key \notin DOMAIN c.chains THEN [res |-> "raised", val |-> NoneTriple]
          ELSE [res |-> "returned",
                val |-> [key |-> key, el |-> c.chains[key].head,
                         text |-> c.chains[key].text]]

\* ------------------------------------------------------------- construction
\* _ocr_page_to_elements: block idx of n on a page is a full-width line box.
OcrBox(w, h, n, idx) ==
  LET line_height == h \div n
      upper == Min(h, h - idx * line_height)
      lower == Max(0, upper - line_height)
  IN <<0, lower, w, upper>>

\* Page with n blocks whose keys start at first; block idx has text <<texts[idx+1]>>.
OcrPage(w, h, n, first, texts) ==
  [width |-> w, height |-> h,
   elements |-> [i \in 1..n |->
      [key |-> first + i - 1,
       el |-> PdfElement(<<texts[i]>>, OcrBox(w, h, n, i - 1))]]]

DefaultMargin == [x1 |-> 15, y1 |-> 8, x2 |-> 85, y2 |-> 92]

\* A margin dragged down so that the top line of a page falls outside.
LowMargin == [x1 |-> 15, y1 |-> 60, x2 |-> 85, y2 |-> 92]

Margins == {DefaultMargin, LowMargin}

\* Pdf.__init__ on a document without snapshot: OCR, safe area, chains.
Constructed(pgs, idx) ==
  Rebuilt([pages |-> recalculate_safe_area(pgs, DefaultMargin), index |-> idx,
           margin |-> DefaultMargin, chains |-> <<>>, to_chain |-> <<>>])

\* The edited document: three lines on the first page, two on the second,
\* the two of the second page merged (keys 3 and 4 are gone, 5 replaces them).
EditDoc ==
  merge(Constructed(<<OcrPage(10, 12, 3, 0, <<"t0", "t1", "t2">>),
                      OcrPage(10, 10, 2, 3, <<"t3", "t4">>)>>, 5),
        1, [none |-> FALSE, ks |-> <<3, 4>>], Concat).ctx

RECURSIVE Times(_, _, _)
Times(c, key, n) ==
  IF n = 0 THEN c ELSE Times(toggle_continue_op(c, key).ctx, key, n - 1)

\* ------------------------------------------------------------------ actions
NoCall ==
  [op |-> "none", k1 |-> NoKey, k2 |-> NoKey, page |-> 0, ks |-> <<>>,
   ks_none |-> FALSE, mode |-> NoContd, disp |-> "", margin |-> <<>>,
   found |-> "", ignore_cache |-> FALSE, res |-> "none", ret |-> "None"]

\* No snapshot file, no translation job, no worker.
NoFile == [kind |-> "none", data |-> <<>>]

NoQuery == [q |-> "none", arg |-> 0, res |-> "none", val |-> <<>>]

StartCtx(c, rem) ==
  /\ pages = c.pages
  /\ index = c.index
  /\ margin = c.margin
  /\ chains = c.chains
  /\ to_chain = c.to_chain
  /\ last = NoCall
  /\ pre = c
  /\ removed = rem
  /\ steps = 0
  /\ out = NoQuery

Start(c, rem) ==
  /\ StartCtx(c, rem)
  /\ disk = NoFile
  /\ jobs = {}
  /\ threads = <<>>

\* A finished translation job stored its result on the element (the indexes
\* are not touched by it).
Translated(c, key, result) ==
  LET loc == get_element(c.pages, key)
  IN [c EXCEPT !.pages[loc[1]].elements[loc[2]].el.translated = result]

\* The session starts from the edited document with the first line marked
\* Concat (toggled once) and the third marked Join (toggled twice), so that one
\* chain lies within the first page and one crosses to the second; the first
\* line has been translated.
Init == Start(Translated(Times(Times(EditDoc, 0, 1), 2, 2), 0, <<"T0">>), {3, 4})

Step(call, r) ==
  /\ steps < MaxOps
  /\ pre' = Ctx
  /\ pages' = r.ctx.pages
  /\ index' = r.ctx.index
  /\ margin' = r.ctx.margin
  /\ chains' = r.ctx.chains
  /\ to_chain' = r.ctx.to_chain
  /\ last' = [call EXCEPT !.res = r.res, !.ret = r.ret]
  /\ removed' = removed \cup (KeysOf(pages) \ KeysOf(r.ctx.pages))
  /\ steps' = steps + 1

Apply(call, r) ==
  /\ Step(call, r)
  /\ UNCHANGED <<out, disk, jobs, threads>>

\* Arguments: every key on the pages and one key that is on no page; every
\* page index and one past the last; key lists of at most two keys, and None.
ArgKeys == KeysOf(pages) \cup {index}

ArgPages == 0..Len(pages)

ArgKeyLists ==
  {[none |-> TRUE, ks |-> <<>>], [none |-> FALSE, ks |-> <<>>]}
  \cup {[none |-> FALSE, ks |-> <<k>>] : k \in ArgKeys}
  \cup {[none |-> FALSE, ks |-> <<k, l>>] : k \in ArgKeys, l \in ArgKeys}

SetSafeMargin ==
  \E m \in Margins :
     Apply([NoCall EXCEPT !.op = "set_safe_margin", !.margin = m],
           set_safe_margin(Ctx, m))

ToggleVisibility ==
  \E k \in ArgKeys :
     Apply([NoCall EXCEPT !.op = "toggle_visibility", !.k1 = k],
           toggle_visibility(Ctx, k))

ToggleBody ==
  \E k \in ArgKeys :
     Apply([NoCall EXCEPT !.op = "toggle_body", !.k1 = k], toggle_body(Ctx, k))

ToggleContinue ==
  \E k \in ArgKeys :
     Apply([NoCall EXCEPT !.op = "toggle_continue", !.k1 = k],
           toggle_continue_op(Ctx, k))

SplitElement ==
  \E k \in ArgKeys :
     Apply([NoCall EXCEPT !.op = "split_element", !.k1 = k], split_element(Ctx, k))

Merge ==
  \E p \in ArgPages, kl \in ArgKeyLists, mode \in {Concat, Join} :
     Apply([NoCall EXCEPT !.op = "merge", !.page = p, !.ks = kl.ks,
                          !.ks_none = kl.none, !.mode = mode],
           merge(Ctx, p, kl, mode))

MoveElement ==
  \E pk \in ArgKeys \cup {NoKey}, mk \in ArgKeys \cup {NoKey},
     p \in ArgPages, d \in {"after", "before"} :
     Apply([NoCall EXCEPT !.op = "move_element", !.k1 = pk, !.k2 = mk,
                          !.page = p, !.disp = d],
           move_element(Ctx, pk, mk, p, d))

Next ==
  \/ SetSafeMargin
  \/ ToggleVisibility
  \/ ToggleBody
  \/ ToggleContinue
  \/ SplitElement
  \/ Merge
  \/ MoveElement

Spec == Init /\ [][Next]_vars

\* ------------------------------------------------------- loaded documents
\* Pdf.__init__ with a snapshot: the context is whatever an earlier session
\* saved (flags toggled, markers cycled, texts translated, margin dragged),
\* and the chains are rebuilt from it.
TrTok == <<"T0", "T1", "T2", "T3">>

FlagSets ==
  {f \in [visible : BOOLEAN, body : BOOLEAN, contd : {NoContd, Concat, Join}] :
     f.visible \/ f.body}

Flagged(pgs, f, tr) ==
  [p \in DOMAIN pgs |->
     [pgs[p] EXCEPT !.elements =
        [i \in DOMAIN pgs[p].elements |->
           LET k == pgs[p].elements[i].key
           IN [pgs[p].elements[i] EXCEPT
                 !.el.visible = f[k + 1].visible,
                 !.el.body = f[k + 1].body,
                 !.el.contd = f[k + 1].contd,
                 !.el.translated = IF k = tr THEN <<TrTok[k + 1]>> ELSE <<>>]]]]

FreshPages ==
  <<OcrPage(10, 10, 2, 0, <<"t0", "t1">>), OcrPage(10, 10, 2, 2, <<"t2", "t3">>)>>

Loaded(f, tr, m) ==
  Rebuilt([pages |-> recalculate_safe_area(Flagged(FreshPages, f, tr), m),
           index |-> 4, margin |-> m, chains |-> <<>>, to_chain |-> <<>>])

InitDoc ==
  \E f \in [1..4 -> FlagSets], tr \in {NoKey, 0, 1, 2, 3}, m \in Margins :
     Start(Loaded(f, tr, m), {})

Ask(q) ==
  /\ out' = q
  /\ UNCHANGED <<pages, index, margin, chains, to_chain, last, pre, removed, steps,
               disk, jobs, threads>>

GetText ==
  LET r == get_text(Ctx)
  IN Ask([q |-> "get_text", arg |-> 0, res |-> r.res, val |-> r.val])

GetPageText ==
  \E p \in ArgPages :
     LET r == get_page_text(Ctx, p)
     IN Ask([q |-> "get_page_text", arg |-> p, res |-> r.res, val |-> r.val])

BuildChainList_Accumulate ==
  /\ chains' = [h \in DOMAIN build_chain_list(pages).chains |->
                  [build_chain_list(pages).chains[h] EXCEPT
                     !.text = (IF h \in DOMAIN chains THEN chains[h].text ELSE <<>>) \o @]]
  /\ to_chain' = build_chain_list(pages).to_chain
  /\ out' = [NoQuery EXCEPT !.q = "build_chain_list"]
  /\ UNCHANGED <<pages, index, margin, last, pre, removed, steps, disk, jobs, threads>>

BuildChainList ==
  /\ chains' = build_chain_list(pages).chains
  /\ to_chain' = build_chain_list(pages).to_chain
  /\ out' = [NoQuery EXCEPT !.q = "build_chain_list"]
  /\ UNCHANGED <<pages, index, margin, last, pre, removed, steps, disk, jobs, threads>>

NextDoc ==
  \/ BuildChainList
  \/ GetText
  \/ GetPageText

SpecDoc == InitDoc /\ [][NextDoc]_vars

\* ------------------------------------------------------- flags and views
\* The session of Spec restricted to the calls that change what is shown: the
\* flag toggles, the margin and the split of the merged element.
NextView ==
  \/ SetSafeMargin
  \/ ToggleVisibility
  \/ ToggleBody
  \/ ToggleContinue
  \/ SplitElement

SpecView == Init /\ [][NextView]_vars

\* ------------------------------------------------------------- persistence
\* The snapshot file holds the pickled Context: margin, pages and index.  The
\* indexes chains and to_chain belong to Pdf and are not written.  at_save is
\* history: the context and indexes at the moment of the save.
save_to_pickle_DefaultMargin(c) ==
  [kind |-> "snapshot",
   data |-> [margin |-> DefaultMargin, pages |-> c.pages, index |-> c.index],
   at_save |-> c]

save_to_pickle(c) ==
  [kind |-> "snapshot",
   data |-> [margin |-> c.margin, pages |-> c.pages, index |-> c.index],
   at_save |-> c]

\* A file that is there but is no pickle of a Context.
CorruptFile == [kind |-> "corrupt", data |-> <<>>]

\* pickle.load raises on a file it cannot decode.
load_from_pickle(file) ==
  IF file.kind = "snapshot"
  THEN [res |-> "returned",
        ctx |-> [pages |-> file.data.pages, index |-> file.data.index,
                 margin |-> file.data.margin, chains |-> <<>>, to_chain |-> <<>>]]
  ELSE [res |-> "raised", ctx |-> <<>>]

\* The source PDF as the OCR reads it.
SourcePages ==
  <<OcrPage(10, 12, 3, 0, <<"t0", "t1", "t2">>), OcrPage(10, 10, 2, 3, <<"t3", "t4">>)>>

\* Pdf.__init__(pdf_path, intm_dir, ignore_cache) with the snapshot file as it
\* is: [ctx, disk, res, ret, stdout].  The bare except turns a failed load into
\* a printed line; with no context the document is built from the PDF and saved.
Pdf_init(file, ignore_cache) ==
  LET exists == file.kind # "none"
      loaded == IF exists /\ ~ignore_cache THEN load_from_pickle(file)
                ELSE [res |-> "skipped", ctx |-> <<>>]
      stdout == IF ~exists THEN <<>>
                ELSE IF ignore_cache
                     THEN <<"Cached PDF found, but ignoring it by --i option">>
                     ELSE IF loaded.res = "returned" THEN <<"Loaded cached PDF from">>
                          ELSE <<"Loading cached PDF failed">>
  IN IF loaded.res = "returned"
     THEN [ctx |-> Rebuilt(loaded.ctx), disk |-> file,
           res |-> "returned", ret |-> "None", stdout |-> stdout]
     ELSE LET built == Constructed(SourcePages, 5)
          IN [ctx |-> built, disk |-> save_to_pickle([built EXCEPT !.chains = <<>>, !.to_chain = <<>>]),
              res |-> "returned", ret |-> "None", stdout |-> stdout]

\* The session of an edited document with its snapshot file: calls that change
\* the document, viewer handlers that change it and save, the file being
\* damaged from outside, and the document being opened again.
InitDisk ==
  /\ StartCtx(Translated(Times(Times(EditDoc, 0, 1), 2, 2), 0, <<"T0">>), {3, 4})
  /\ disk = save_to_pickle(Translated(Times(Times(EditDoc, 0, 1), 2, 2), 0, <<"T0">>))
  /\ jobs = {}
  /\ threads = <<>>

\* A handler of the viewer: the call, then _persist_context.
ApplyAndSave(call, r) ==
  /\ Step(call, r)
  /\ disk' = save_to_pickle(r.ctx)
  /\ UNCHANGED <<out, jobs, threads>>

ElementRightClicked ==
  \E k \in KeysOf(pages) :
     ApplyAndSave([NoCall EXCEPT !.op = "toggle_visibility", !.k1 = k],
                  toggle_visibility(Ctx, k))

SafeAreaChanged ==
  \E m \in Margins :
     ApplyAndSave([NoCall EXCEPT !.op = "set_safe_margin", !.margin = m],
                  set_safe_margin(Ctx, m))

Save ==
  /\ Step([NoCall EXCEPT !.op = "save"], Returned(Ctx, "None"))
  /\ disk' = save_to_pickle(Ctx)
  /\ UNCHANGED <<out, jobs, threads>>

FileDamaged ==
  /\ disk.kind = "snapshot"
  /\ \E file \in {CorruptFile, NoFile} :
        /\ Step([NoCall EXCEPT !.op = "file_damaged"], Returned(Ctx, "None"))
        /\ disk' = file
  /\ UNCHANGED <<out, jobs, threads>>

Open ==
  \E ignore_cache \in BOOLEAN :
     LET r == Pdf_init(disk, ignore_cache)
     IN /\ Step([NoCall EXCEPT !.op = "open", !.found = disk.kind,
                                !.ignore_cache = ignore_cache], r)
        /\ disk' = r.disk
        /\ out' = [q |-> "stdout", arg |-> 0, res |-> r.res, val |-> r.stdout]
        /\ UNCHANGED <<jobs, threads>>

NextDisk ==
  \/ ToggleBody
  \/ ToggleContinue
  \/ SplitElement
  \/ ElementRightClicked
  \/ SafeAreaChanged
  \/ Save
  \/ FileDamaged
  \/ Open

SpecDisk == InitDisk /\ [][NextDisk]_vars

\* ------------------------------------------------------ viewer and workers
\* The viewer's event handlers run on the UI thread, one at a time; a worker
\* is a record [kind, head, text, phase, result, error]: text is what the
\* handler captured for it, phase "running" until the worker has posted its
\* completion callback, then "posted" until the UI thread has run it.
MaxClicks == 3

\* text.strip() is empty.
Blank(text) == \A i \in DOMAIN text : text[i] \in {SP, NL}

NoThread ==
  [kind |-> "none", head |-> NoKey, text |-> <<>>, phase |-> "none",
   result |-> <<>>, error |-> FALSE]

\* The part of _start_translation that runs in the handler.  able is what
\* element.can_be_translated() answers.
start_translation_NoCheck(c, js, key, able) ==
  LET r == get_chained_text(c, key)
  IN IF r.res = "raised" THEN [res |-> "raised", ret |-> "None", thread |-> NoThread]
     ELSE IF r.val.el = NoKey \/ Blank(r.val.text)
     THEN [res |-> "returned", ret |-> "no_text", thread |-> NoThread]
     ELSE IF ~able
     THEN [res |-> "returned", ret |-> "untranslatable", thread |-> NoThread]
     ELSE [res |-> "returned", ret |-> "started",
           thread |-> [NoThread EXCEPT !.kind = "translate", !.head = r.val.key,
                                       !.text = r.val.text, !.phase = "running"]]

start_translation(c, js, key, able) ==
  LET r == get_chained_text(c, key)
  IN IF r.res = "raised" THEN [res |-> "raised", ret |-> "None", thread |-> NoThread]
     ELSE IF r.val.el = NoKey \/ Blank(r.val.text)
     THEN [res |-> "returned", ret |-> "no_text", thread |-> NoThread]
     ELSE IF ~able
     THEN [res |-> "returned", ret |-> "untranslatable", thread |-> NoThread]
     ELSE IF r.val.key \in js
     THEN [res |-> "returned", ret |-> "busy", thread |-> NoThread]
     ELSE [res |-> "returned", ret |-> "started",
           thread |-> [NoThread EXCEPT !.kind = "translate", !.head = r.val.key,
                                       !.text = r.val.text, !.phase = "running"]]

\* The external services, by what the worker does with their answer: "ok" a
\* non-empty answer made from the text passed, "empty" an answer that is empty
\* or blank, "raised" an exception.
Outcomes == {"ok", "empty", "raised"}

translate(text) == <<"zh">> \o text

generate_markdown(text) == <<"md">> \o text

\* The body of a worker up to master.after(0, finish): it works on the text
\* of its closure and leaves the context alone.
worker_Writes(c, th, outcome) ==
  [ctx |-> IF th.kind = "translate" /\ outcome = "ok"
           THEN Translated(c, th.head, translate(th.text)) ELSE c,
   thread |-> [th EXCEPT !.phase = "posted",
                         !.result = IF outcome # "ok" THEN <<>>
                                    ELSE IF th.kind = "translate" THEN translate(th.text)
                                    ELSE generate_markdown(th.text),
                         !.error = (outcome = "raised")]]

worker(c, th, outcome) ==
  [ctx |-> c,
   thread |-> [th EXCEPT !.phase = "posted",
                         !.result = IF outcome # "ok" THEN <<>>
                                    ELSE IF th.kind = "translate" THEN translate(th.text)
                                    ELSE generate_markdown(th.text),
                         !.error = (outcome = "raised")]]

\* The completion callback of a translation: the job entry goes, and a result
\* is stored on the element of the closure and the context is saved.
finish(c, js, file, th) ==
  IF th.result # <<>>
  THEN LET done == Translated(c, th.head, th.result)
       IN [ctx |-> done, jobs |-> js \ {th.head}, disk |-> save_to_pickle(done)]
  ELSE [ctx |-> c, jobs |-> js \ {th.head}, disk |-> file]

\* _iter_visible_heads over the whole document: the original text of every
\* safe and visible entry that is a head or in no chain.
iter_visible_heads(c) ==
  LET all == iter_elements(c.pages)
      shown == SelectSeq(all, LAMBDA ent :
                 /\ ent.el.safe /\ ent.el.visible
                 /\ Get(c.to_chain, ent.key) \in {NoKey, ent.key})
  IN [i \in DOMAIN shown |->
        IF Get(c.to_chain, shown[i].key) = shown[i].key
        THEN c.chains[shown[i].key].text
        ELSE shown[i].el.text]

RECURSIVE JoinLines(_)
JoinLines(ls) ==
  IF Len(ls) = 0 THEN <<>>
  ELSE IF Len(ls) = 1 THEN ls[1]
  ELSE ls[1] \o <<NL>> \o JoinLines(Tail(ls))

collect_original_text(c) == JoinLines(iter_visible_heads(c))

\* One step of the viewer: a handler (counted) or a worker's body.
Event(call, c, counted) ==
  /\ counted => steps < MaxClicks
  /\ steps' = IF counted THEN steps + 1 ELSE steps
  /\ pre' = Ctx
  /\ pages' = c.pages
  /\ index' = c.index
  /\ margin' = c.margin
  /\ chains' = c.chains
  /\ to_chain' = c.to_chain
  /\ last' = call
  /\ removed' = removed

RemoveThread(i) == SubSeq(threads, 1, i - 1) \o SubSeq(threads, i + 1, Len(threads))

\* The document of the editing session before any translation, saved.
ViewerDoc == Times(Times(EditDoc, 0, 1), 2, 2)

InitViewer ==
  /\ StartCtx(ViewerDoc, {3, 4})
  /\ disk = save_to_pickle(ViewerDoc)
  /\ jobs = {}
  /\ threads = <<>>

\* A left click on an element: in Translate mode a translation is requested,
\* in Visibility mode the element is toggled and the context saved, in any
\* other mode nothing happens.
ElementLeftClicked ==
  \E key \in KeysOf(pages), mode \in {"Translate", "Visibility", "Other"},
     able \in BOOLEAN :
     IF mode = "Translate"
     THEN LET r == start_translation(Ctx, jobs, key, able)
          IN /\ Event([NoCall EXCEPT !.op = "start_translation", !.k1 = key,
                                     !.res = r.res, !.ret = r.ret], Ctx, TRUE)
             /\ jobs' = IF r.ret = "started" THEN jobs \cup {r.thread.head} ELSE jobs
             /\ threads' = IF r.ret = "started" THEN Append(threads, r.thread)
                           ELSE threads
             /\ UNCHANGED <<out, disk>>
     ELSE IF mode = "Visibility"
     THEN LET r == toggle_visibility(Ctx, key)
          IN /\ Event([NoCall EXCEPT !.op = "toggle_visibility", !.k1 = key,
                                     !.res = r.res, !.ret = r.ret], r.ctx, TRUE)
             /\ disk' = save_to_pickle(r.ctx)
             /\ UNCHANGED <<out, jobs, threads>>
     ELSE /\ Event([NoCall EXCEPT !.op = "left_click", !.k1 = key,
                                  !.res = "returned"], Ctx, TRUE)
          /\ UNCHANGED <<out, disk, jobs, threads>>

\* Export MD: the text of the document is collected in the handler and handed
\* to a worker, unless it is blank.
ExportButtonClicked ==
  LET original_text == collect_original_text(Ctx)
      go == ~Blank(original_text)
  IN /\ Event([NoCall EXCEPT !.op = "export", !.res = "returned",
                             !.ret = IF go THEN "started" ELSE "no_text"], Ctx, TRUE)
     /\ threads' = IF go
                   THEN Append(threads, [NoThread EXCEPT !.kind = "export",
                                           !.text = original_text, !.phase = "running"])
                   ELSE threads
     /\ UNCHANGED <<out, disk, jobs>>

\* Generate KG: the exported Markdown file is read in the handler and handed
\* to a worker; without the file, or with a blank one, nothing starts.
GenerateKgButtonClicked ==
  LET go == out.q = "export_md" /\ ~Blank(out.val)
  IN /\ Event([NoCall EXCEPT !.op = "generate_kg", !.res = "returned",
                             !.ret = IF go THEN "started" ELSE "no_file"], Ctx, TRUE)
     /\ threads' = IF go
                   THEN Append(threads, [NoThread EXCEPT !.kind = "kg",
                                           !.text = out.val, !.phase = "running"])
                   ELSE threads
     /\ UNCHANGED <<out, disk, jobs>>

\* A worker thread runs to the point where it has posted its callback; the
\* export worker has then written the Markdown file.
WorkerRun ==
  \E i \in DOMAIN threads, outcome \in Outcomes :
     /\ threads[i].phase = "running"
     /\ threads[i].kind # "translate" => outcome # "empty"
     /\ LET r == worker(Ctx, threads[i], outcome)
        IN /\ Event([NoCall EXCEPT !.op = "worker", !.k1 = threads[i].head,
                                   !.res = "returned", !.ret = outcome], r.ctx, FALSE)
           /\ threads' = [threads EXCEPT ![i] = r.thread]
           /\ out' = IF threads[i].kind = "export" /\ outcome = "ok"
                     THEN [q |-> "export_md", arg |-> 0, res |-> "returned",
                           val |-> r.thread.result]
                     ELSE out
     /\ UNCHANGED <<disk, jobs>>

\* The UI thread runs a posted completion callback.
Finish ==
  \E i \in DOMAIN threads :
     /\ threads[i].phase = "posted"
     /\ LET th == threads[i]
            r == IF th.kind = "translate" THEN finish(Ctx, jobs, disk, th)
                 ELSE [ctx |-> Ctx, jobs |-> jobs, disk |-> disk]
        IN /\ Event([NoCall EXCEPT !.op = "finish", !.k1 = th.head,
                                   !.res = "returned",
                                   !.ret = IF th.result # <<>> THEN "stored" ELSE "failed"],
                    r.ctx, FALSE)
           /\ jobs' = r.jobs
           /\ disk' = r.disk
     /\ threads' = RemoveThread(i)
     /\ UNCHANGED out

NextViewer ==
  \/ ElementLeftClicked
  \/ ExportButtonClicked
  \/ GenerateKgButtonClicked
  \/ WorkerRun
  \/ Finish

SpecViewer == InitViewer /\ [][NextViewer]_vars

\* ---------------------------------------------------------- chain lookup
\* Loaded documents without translations, asked for the chained text of a key.
InitChain ==
  \E f \in [1..4 -> FlagSets], m \in Margins : Start(Loaded(f, NoKey, m), {})

GetChainedText ==
  \E k \in ArgKeys :
     LET r == get_chained_text(Ctx, k)
     IN Ask([q |-> "get_chained_text", arg |-> k, res |-> r.res, val |-> r.val])

NextChain == GetChainedText

SpecChain == InitChain /\ [][NextChain]_vars

\* ------------------------------------------------- the safe-area evaluator
\* Margins a drag of the safe area can leave: proper rectangles, some of them
\* ending exactly on the edge of a line, one shrunk onto the right page edge.
MarginGrid ==
  {m \in [x1 : {0, 15, 100}, y1 : {8, 50, 60}, x2 : {85, 100}, y2 : {50, 70, 92}] :
     m.x1 <= m.x2 /\ m.y1 < m.y2}

\* A freshly built document of two pages of different heights.
InitSafe ==
  Start(Constructed(<<OcrPage(10, 12, 3, 0, <<"t0", "t1", "t2">>),
                      OcrPage(10, 10, 2, 3, <<"t3", "t4">>)>>, 5), {})

SetSafeMarginGrid ==
  \E m \in MarginGrid :
     Apply([NoCall EXCEPT !.op = "set_safe_margin", !.margin = m],
           set_safe_margin(Ctx, m))

RecalculateSafeArea ==
  Apply([NoCall EXCEPT !.op = "recalculate_safe_area"],
        Returned([Ctx EXCEPT !.pages = recalculate_safe_area(pages, margin)], "None"))

NextSafe ==
  \/ SetSafeMarginGrid
  \/ RecalculateSafeArea

SpecSafe == InitSafe /\ [][NextSafe]_vars

\* =================================================================== claims
Flat == iter_elements(pages)

\* Position in document scan order of the entry with key k.
Pos(k) == CHOOSE i \in DOMAIN Flat : Flat[i].key = k

\* 1-based page of the entry with key k.
PageOf(k) == CHOOSE p \in DOMAIN pages : k \in KeysOfPage(pages[p])

ElemOf(k) == Flat[Pos(k)].el

\* C1: under any sequence of split_element and merge calls interleaved with
\* toggles, move_element and set_safe_margin, the keys on the pages are pairwise
\* distinct and no key once taken off the pages by split or merge is on them again.
C1_KeyUniqueness ==
  /\ \A i, j \in DOMAIN Flat : i # j => Flat[i].key # Flat[j].key
  /\ KeysOf(pages) \cap removed = {}

\* A merge that follows an earlier split or merge of the same session.
C1_Witness ==
  /\ last.op = "merge"
  /\ index = pre.index + 1
  /\ pre.index > EditDoc.index
  /\ Cardinality(removed) > 3

\* C2: after build_chain_list every key k of to_chain maps to a head h that maps
\* to itself, h is at or before k in scan order, and every eligible element from
\* h up to but excluding k has a continuation marker other than None.
C2_ChainClosure ==
  \A k \in DOMAIN to_chain :
     LET h == to_chain[k]
     IN /\ k \in KeysOf(pages)
        /\ h \in KeysOf(pages)
        /\ h \in DOMAIN to_chain
        /\ to_chain[h] = h
        /\ Pos(h) <= Pos(k)
        /\ \A i \in Pos(h)..(Pos(k) - 1) :
              Eligible(Flat[i].el) => Flat[i].el.contd # NoContd

\* A rebuilt chain that crosses the page boundary, next to a closed marker.
C2_Witness ==
  /\ out.q = "build_chain_list"
  /\ \E k \in DOMAIN to_chain :
        /\ to_chain[k] # k
        /\ PageOf(to_chain[k]) < PageOf(k)
        /\ ElemOf(k).contd = NoContd
        /\ \E j \in DOMAIN Flat : j > Pos(k) /\ Eligible(Flat[j].el)

\* C3: after every completed call of an editing operation, whether or not it
\* changed the pages, chains and to_chain are what build_chain_list computes
\* from the current pages.
C3_IndexesFresh ==
  /\ chains = build_chain_list(pages).chains
  /\ to_chain = build_chain_list(pages).to_chain

\* A margin change that took an element out of its chain.
C3_Witness ==
  /\ last.op = "set_safe_margin"
  /\ last.res = "returned"
  /\ to_chain # pre.to_chain
  /\ chains # pre.chains

\* C4: the combined text of a chain is the head's text followed, for each later
\* member, by the separator chosen by the previous member's marker (Concat a
\* space, Join a line break) and the member's text; two adjacent eligible
\* elements marked (Concat, None) or (Join, None) that no open chain precedes
\* form one chain headed by the first, with text1 + separator + text2.
Members(h) == SelectSeq(Flat, LAMBDA ent : Get(to_chain, ent.key) = h)

SepOf(marker) == IF marker = Concat THEN SP ELSE NL

RECURSIVE Combined(_, _)
Combined(ms, n) ==
  IF n = 1 THEN ms[1].el.text
  ELSE Combined(ms, n - 1) \o <<SepOf(ms[n - 1].el.contd)>> \o ms[n].el.text

\* The eligible entries in scan order.
EligibleFlat == SelectSeq(Flat, LAMBDA ent : Eligible(ent.el))

C4_CombinedText ==
  /\ \A h \in DOMAIN chains :
        LET ms == Members(h)
        IN /\ Len(ms) >= 1
           /\ ms[1].key = h
           /\ \A i \in DOMAIN ms : Eligible(ms[i].el)
           /\ \A i \in 1..(Len(ms) - 1) : ms[i].el.contd \in {Concat, Join}
           /\ chains[h].text = Combined(ms, Len(ms))
  /\ \A i \in 1..(Len(EligibleFlat) - 1) :
        LET a == EligibleFlat[i]
            b == EligibleFlat[i + 1]
        IN (/\ a.el.contd \in {Concat, Join}
            /\ b.el.contd = NoContd
            /\ (i > 1 => EligibleFlat[i - 1].el.contd = NoContd))
           => /\ a.key \in DOMAIN chains
              /\ Get(to_chain, a.key) = a.key
              /\ Get(to_chain, b.key) = a.key
              /\ chains[a.key].text = a.el.text \o <<SepOf(a.el.contd)>> \o b.el.text

\* A chain of three members joined once by a space and once by a line break.
C4_Witness ==
  /\ out.q = "build_chain_list"
  /\ \E h \in DOMAIN chains :
        /\ Len(Members(h)) = 3
        /\ Members(h)[1].el.contd = Concat
        /\ Members(h)[2].el.contd = Join

\* ---------------------------------------------------------------- text views
Contains(s, t) ==
  \E i \in 0..(Len(s) - Len(t)) : SubSeq(s, i + 1, i + Len(t)) = t

Occurrences(s, t) ==
  Cardinality({i \in 0..(Len(s) - Len(t)) : SubSeq(s, i + 1, i + Len(t)) = t})

IsHead(k) == Get(to_chain, k) = k

IsContinuation(k) == k \in DOMAIN to_chain /\ to_chain[k] # k

\* The line a head or an element outside every chain is rendered as.
HeadLine(k) ==
  (IF ElemOf(k).translated # <<>> THEN ElemOf(k).translated ELSE chains[k].text)
  \o <<NL>>

OwnLine(k) ==
  (IF ElemOf(k).translated # <<>> THEN ElemOf(k).translated ELSE ElemOf(k).text)
  \o <<NL>>

\* C5: get_page_text(p) emits the omission marker only for visible, safe, body
\* continuations of a chain whose head lies on a page before p, and renders
\* every chain head that is on page p (translated text if present, else the
\* combined text), whatever the arrangement of the page.
C5_PageTextOmission ==
  (out.q = "get_page_text" /\ out.arg < Len(pages)) =>
     LET p == out.arg + 1
         carried == {k \in KeysOfPage(pages[p]) :
                       /\ Eligible(ElemOf(k))
                       /\ IsContinuation(k)
                       /\ PageOf(to_chain[k]) < p}
     IN /\ out.res = "returned"
        /\ Occurrences(out.val, <<OMIT>>) <= Cardinality(carried)
        /\ \A k \in KeysOfPage(pages[p]) :
              IsHead(k) => Contains(out.val, HeadLine(k))

\* C6: a chain whose head is on page i with marker Join and whose continuation
\* (marker None) is the first body element of page i+1.
C6_Scenario(h, k) ==
  /\ IsContinuation(k)
  /\ to_chain[k] = h
  /\ PageOf(k) = PageOf(h) + 1
  /\ ElemOf(h).contd = Join
  /\ ElemOf(k).contd = NoContd
  /\ \A j \in DOMAIN pages[PageOf(k)].elements :
        (pages[PageOf(k)].elements[j].key # k /\ pages[PageOf(k)].elements[j].el.body)
        => \E i \in 1..(j - 1) : pages[PageOf(k)].elements[i].key = k

\* get_page_text of the continuation's page shows the omission marker for it
\* and none of its own text.
C6_PagePart(h, k) ==
  (out.q = "get_page_text" /\ out.arg + 1 = PageOf(k)) =>
     /\ out.res = "returned"
     /\ Occurrences(out.val, <<OMIT, NL>>) >= 1
     /\ SeqRange(ElemOf(k).text) \cap SeqRange(out.val) = {}

\* C6 as stated: in that scenario get_text contains the combined text of the
\* chain exactly once, and get_page_text(i+1) shows the omission marker and not
\* the continuation's own text.
C6_AsStated ==
  \A h, k \in KeysOf(pages) :
     C6_Scenario(h, k) =>
        /\ out.q = "get_text" =>
              /\ out.res = "returned"
              /\ Occurrences(out.val, chains[h].text \o <<NL>>) = 1
        /\ C6_PagePart(h, k)

\* C6 amended: get_text emits the combined text exactly once, at the head, when
\* the head has no translated text; a translated head emits its translation
\* there instead and the combined text not at all.  The page part is as stated.
C6_CrossPage ==
  \A h, k \in KeysOf(pages) :
     C6_Scenario(h, k) =>
        /\ out.q = "get_text" =>
              /\ out.res = "returned"
              /\ Occurrences(out.val, HeadLine(h)) = 1
              /\ SeqRange(ElemOf(k).text) \cap SeqRange(out.val)
                    \subseteq SeqRange(HeadLine(h))
              /\ ElemOf(h).translated = <<>> =>
                    Occurrences(out.val, chains[h].text \o <<NL>>) = 1
              /\ ElemOf(h).translated # <<>> =>
                    Occurrences(out.val, chains[h].text \o <<NL>>) = 0
        /\ C6_PagePart(h, k)

\* The page view of the second page, whose first body element continues a
\* chain of the first page and stands behind a visible non-body element.
C6_Witness ==
  /\ out.q = "get_page_text"
  /\ \E h, k \in KeysOf(pages) :
        /\ C6_Scenario(h, k)
        /\ out.arg + 1 = PageOf(k)
        /\ Pos(k) > 1
        /\ ~Flat[Pos(k) - 1].el.body
        /\ Flat[Pos(k) - 1].el.visible /\ Flat[Pos(k) - 1].el.safe
        /\ PageOf(Flat[Pos(k) - 1].key) = PageOf(k)

\* C7: get_text emits, in document order, one line per visible and safe element
\* that is not a chain continuation: the head's translated text if present else
\* the combined text for a head, the translated text if present else the own
\* text for an element outside every chain; nothing for a continuation, and
\* never the omission marker.
C7_Line(ent) ==
  IF ~(ent.el.visible /\ ent.el.safe) THEN <<>>
  ELSE IF IsContinuation(ent.key) THEN <<>>
  ELSE IF IsHead(ent.key) THEN HeadLine(ent.key)
  ELSE OwnLine(ent.key)

C7_DocumentText ==
  out.q = "get_text" =>
     /\ out.res = "returned"
     /\ out.val = Flatten([i \in DOMAIN Flat |-> C7_Line(Flat[i])])
     /\ OMIT \notin SeqRange(out.val)
     /\ \A h \in DOMAIN chains :
           ElemOf(h).translated = <<>> =>
              Occurrences(out.val, chains[h].text \o <<NL>>) = 1

\* A document text with a translated head, its continuation, and an invisible
\* and a non-body element.
C7_Witness ==
  /\ out.q = "get_text"
  /\ \E h \in DOMAIN chains : ElemOf(h).translated # <<>> /\ Len(Members(h)) = 2
  /\ \E k \in KeysOf(pages) : ~ElemOf(k).visible
  /\ \E k \in KeysOf(pages) :
        ~ElemOf(k).body /\ ElemOf(k).visible /\ ElemOf(k).safe

\* ------------------------------------------------------- editing operations
\* The call left the context and the derived indexes as they were.
Untouched == Ctx = pre

\* C8: toggle_visibility(key) and toggle_body(key) with a key that is on no page
\* complete without raising and leave pages, flags, margin, context.index,
\* chains and to_chain unchanged.
C8_ToggleMissingKey ==
  (/\ last.op \in {"toggle_visibility", "toggle_body"}
   /\ last.k1 \notin KeysOf(pre.pages))
  => (last.res = "returned" /\ Untouched)

\* C9: merge with a page_number that is no page index and a non-empty key list
\* completes without raising and changes nothing, as move_element does for a
\* page_index out of range.
C9_MergeInvalidPage ==
  /\ (/\ last.op = "move_element"
      /\ last.page >= Len(pre.pages))
     => (last.res = "returned" /\ Untouched)
  /\ (/\ last.op = "merge"
      /\ last.page >= Len(pre.pages)
      /\ ~last.ks_none /\ Len(last.ks) > 0)
     => (last.res = "returned" /\ Untouched)

\* C10: a merge that collects at least two qualifying elements of the page
\* removes the collected originals and puts one new entry, keyed by the old
\* context.index, at the least original index of the collected ones; the other
\* entries keep their order, the other pages stay, context.index grows by 1.
C10_Collected ==
  LET els == pre.pages[last.page + 1].elements
  IN {i \in DOMAIN els :
        /\ els[i].key \in SeqRange(last.ks)
        /\ els[i].el.safe /\ els[i].el.visible /\ can_be_merged(els[i].el)}

C10_Applies ==
  /\ last.op = "merge"
  /\ ~last.ks_none
  /\ last.page < Len(pre.pages)
  /\ \/ Cardinality(C10_Collected) >= 2
     \/ \E i \in C10_Collected, a, b \in DOMAIN last.ks :
           a # b /\ last.ks[a] = last.ks[b]
              /\ last.ks[a] = pre.pages[last.page + 1].elements[i].key

C10_MergeResult ==
  C10_Applies =>
     LET p == last.page + 1
         old == pre.pages[p].elements
         new == pages[p].elements
         at == SetMin(C10_Collected)
         rest == SelectSeq([i \in DOMAIN old |-> i], LAMBDA i : i \notin C10_Collected)
     IN /\ last.res = "returned"
        /\ index = pre.index + 1
        /\ Len(new) = Len(old) - Cardinality(C10_Collected) + 1
        /\ new[at].key = pre.index
        /\ RemoveAt(new, at) = [j \in DOMAIN rest |-> old[rest[j]]]
        /\ \A q \in DOMAIN pages : q # p => pages[q] = pre.pages[q]
        /\ Len(pages) = Len(pre.pages)

\* A merge of two entries that are not adjacent, listed in reverse page order.
C10_Witness ==
  /\ C10_Applies
  /\ Len(last.ks) = 2
  /\ \E i, j \in C10_Collected :
        /\ j > i + 1
        /\ pre.pages[last.page + 1].elements[j].key = last.ks[1]
        /\ pre.pages[last.page + 1].elements[i].key = last.ks[2]


\* C11: a merge for which fewer than two distinct elements of the page qualify
\* (safe, visible, can_be_merged), whatever the key list (None, empty, keys of
\* other pages, keys of ineligible elements, one qualifying key named more than
\* once), returns and changes nothing.
C11_Qualifying ==
  IF last.ks_none \/ last.page >= Len(pre.pages) THEN {}
  ELSE LET els == pre.pages[last.page + 1].elements
       IN {i \in DOMAIN els :
             /\ els[i].key \in SeqRange(last.ks)
             /\ els[i].el.safe /\ els[i].el.visible /\ can_be_merged(els[i].el)}

C11_MergeNoOp ==
  (/\ last.op = "merge"
   /\ last.ks_none \/ Len(last.ks) = 0 \/ last.page < Len(pre.pages)
   /\ Cardinality(C11_Qualifying) < 2)
  => (last.res = "returned" /\ Untouched)

\* C12: a move_element that finds both elements returns True; the new page is
\* the old one with the moved entry taken out and put back immediately after
\* the pivot ("after") or immediately before it (otherwise), wherever the moved
\* entry stood; the other entries keep their order, the other pages stay.
C12_Found ==
  /\ last.op = "move_element"
  /\ last.k1 # NoKey /\ last.k2 # NoKey /\ last.k1 # last.k2
  /\ last.page < Len(pre.pages)
  /\ \A k \in {last.k1, last.k2} :
        \E i \in DOMAIN pre.pages[last.page + 1].elements :
           LET ent == pre.pages[last.page + 1].elements[i]
           IN ent.key = k /\ ent.el.safe /\ ent.el.visible

C12_MoveOrder ==
  C12_Found =>
     LET p == last.page + 1
         old == pre.pages[p].elements
         new == pages[p].elements
         moved == CHOOSE i \in DOMAIN old : old[i].key = last.k2
         rest == RemoveAt(old, moved)
         at == CHOOSE j \in DOMAIN new : new[j].key = last.k2
         piv == CHOOSE j \in DOMAIN new : new[j].key = last.k1
     IN /\ last.res = "returned" /\ last.ret = "True"
        /\ Len(new) = Len(old)
        /\ KeysOfPage(pages[p]) = KeysOfPage(pre.pages[p])
        /\ new[at] = old[moved]
        /\ RemoveAt(new, at) = rest
        /\ at = IF last.disp = "after" THEN piv + 1 ELSE piv - 1
        /\ \A q \in DOMAIN pages : q # p => pages[q] = pre.pages[q]
        /\ index = pre.index

\* The moved entry stood before the pivot, with an entry between them, and was
\* put after it.
C12_Witness ==
  /\ C12_Found
  /\ last.disp = "after"
  /\ LET old == pre.pages[last.page + 1].elements
     IN \E i, j \in DOMAIN old :
           i + 1 < j /\ old[i].key = last.k2 /\ old[j].key = last.k1

\* C13: move_element returns a value other than True and changes nothing when
\* the pivot key or the moved key is not the key of a safe and visible element
\* of the page, when the two keys are equal, or when the page is out of range.
C13_MoveFailure ==
  (last.op = "move_element" /\ ~C12_Found)
  => (last.res = "returned" /\ last.ret # "True" /\ Untouched)

\* The pivot is on the page and visible, but outside the safe area; the moved
\* element is eligible.
C13_Witness ==
  /\ last.op = "move_element" /\ ~C12_Found
  /\ last.page < Len(pre.pages)
  /\ LET old == pre.pages[last.page + 1].elements
     IN \E i, j \in DOMAIN old :
           /\ old[i].key = last.k1 /\ old[i].el.visible /\ ~old[i].el.safe
           /\ old[j].key = last.k2 /\ old[j].el.visible /\ old[j].el.safe

\* C14: split_element on a key whose entry is safe, visible and splittable
\* replaces that entry by its children, in child order, under the keys old
\* context.index, old context.index + 1, ...; context.index grows by the number
\* of children and every other entry of every page stays in place.  For any
\* other key the call changes nothing.
C14_Target ==
  {loc \in UNION {{<<p, i>> : i \in DOMAIN pre.pages[p].elements} : p \in DOMAIN pre.pages} :
     LET ent == pre.pages[loc[1]].elements[loc[2]]
     IN /\ ent.key = last.k1
        /\ ent.el.safe /\ ent.el.visible /\ can_be_split(ent.el)}

C14_SplitResult ==
  last.op = "split_element" =>
     /\ last.res = "returned"
     /\ C14_Target = {} => Untouched
     /\ \A loc \in C14_Target :
           LET p == loc[1]
               i == loc[2]
               old == pre.pages[p].elements
               new == pages[p].elements
               ch == old[i].el.children
               m == Len(ch)
           IN /\ index = pre.index + m
              /\ Len(new) = Len(old) + m - 1
              /\ SubSeq(new, 1, i - 1) = SubSeq(old, 1, i - 1)
              /\ SubSeq(new, i + m, Len(new)) = SubSeq(old, i + 1, Len(old))
              /\ \A j \in 1..m : new[i + j - 1] = [key |-> pre.index + j - 1, el |-> ch[j]]
              /\ \A q \in DOMAIN pages : q # p => pages[q] = pre.pages[q]

\* A split of an element of two children that is not the only entry of its page.
C14_Witness ==
  /\ last.op = "split_element"
  /\ \E loc \in C14_Target :
        /\ Len(pre.pages[loc[1]].elements[loc[2]].el.children) = 2
        /\ Len(pre.pages[loc[1]].elements) > 1


\* The safe rectangle of a page, in hundredths of a page unit: margin y is
\* measured from the top, boxes from the bottom.
SafeRect(pg, m) ==
  [left |-> pg.width * m.x1, bottom |-> pg.height * (Scale - m.y2),
   right |-> pg.width * m.x2, top |-> pg.height * (Scale - m.y1)]

\* The box is entirely to one side of the rectangle on the x axis or on the y axis.
SeparatedFrom(bbox, r) ==
  \/ Scale * bbox[3] < r.left \/ r.right < Scale * bbox[1]
  \/ Scale * bbox[4] < r.bottom \/ r.top < Scale * bbox[2]

\* The box meets the rectangle in an edge or a corner only.
TouchesOnly(bbox, r) ==
  /\ ~SeparatedFrom(bbox, r)
  /\ \/ Scale * bbox[3] = r.left \/ r.right = Scale * bbox[1]
     \/ Scale * bbox[4] = r.bottom \/ r.top = Scale * bbox[2]

\* C15: in every state reached by set_safe_margin, the toggles, split_element,
\* merge and move_element, every element of every page, those made by a split
\* or a merge included, has safe equal to the overlap test of its box against
\* the safe rectangle of the current margin.
C15_SafeIsOverlap ==
  \A p \in DOMAIN pages : \A i \in DOMAIN pages[p].elements :
     pages[p].elements[i].el.safe
        = ~SeparatedFrom(pages[p].elements[i].el.bbox, SafeRect(pages[p], margin))

\* C16: recalculate_safe_area gives every element safe = TRUE exactly when its
\* box and the rectangle (width*x1, height*(1-y2), width*x2, height*(1-y1)) are
\* not separated on either axis, a shared edge or corner counting as overlap;
\* run again with nothing changed it leaves the pages as they are.
C16_SafeArea ==
  /\ \A p \in DOMAIN pages : \A i \in DOMAIN pages[p].elements :
        pages[p].elements[i].el.safe
           = ~SeparatedFrom(pages[p].elements[i].el.bbox, SafeRect(pages[p], margin))
  /\ last.op = "recalculate_safe_area" => (last.res = "returned" /\ Untouched)

\* The evaluator ran a second time on a document of which one element only
\* touches the safe rectangle and another lies outside it.
C16_Witness ==
  /\ last.op = "recalculate_safe_area"
  /\ \E p \in DOMAIN pages : \E i, j \in DOMAIN pages[p].elements :
        /\ TouchesOnly(pages[p].elements[i].el.bbox, SafeRect(pages[p], margin))
        /\ pages[p].elements[i].el.safe
        /\ ~pages[p].elements[j].el.safe


\* C17: after build_chain_list every head key h of chains has at least two
\* distinct keys k with to_chain[k] = h, the head and one continuation at least,
\* in every document, one whose last eligible element carries a marker included.
C17_MultiFragment ==
  \A h \in DOMAIN chains :
     Cardinality({k \in DOMAIN to_chain : to_chain[k] = h}) >= 2


\* C18: get_chained_text(key) returns (key, element, element.text) for a key
\* without chain membership and (head key, head element, combined text of the
\* chain) for a member, the same triple for every member of a chain; for a key
\* of no element it returns (None, None, None) and does not raise.
C18_Expected(k) ==
  IF k \notin KeysOf(pages) THEN NoneTriple
  ELSE IF k \notin DOMAIN to_chain THEN [key |-> k, el |-> k, text |-> ElemOf(k).text]
  ELSE LET h == to_chain[k]
           ms == Members(h)
       IN [key |-> h, el |-> h, text |-> Combined(ms, Len(ms))]

C18_ChainedText ==
  out.q = "get_chained_text"
  => (out.res = "returned" /\ out.val = C18_Expected(out.arg))

\* The key asked for is the second continuation of a chain of three.
C18_Witness ==
  /\ out.q = "get_chained_text"
  /\ out.arg \in DOMAIN to_chain
  /\ to_chain[out.arg] # out.arg
  /\ Len(Members(to_chain[out.arg])) = 3
  /\ Members(to_chain[out.arg])[3].key = out.arg


\* The text tokens an element can put into a view: its text and its translation.
OwnTokens(e) == (SeqRange(e.text) \cup SeqRange(e.translated)) \ {SP, NL}

Hidden(ent) == ~ent.el.visible \/ ~ent.el.safe

\* The document without the entries that are not visible or not safe.
WithoutHidden(c) ==
  [c EXCEPT !.pages =
     [p \in DOMAIN c.pages |->
        [c.pages[p] EXCEPT !.elements = SelectSeq(@, LAMBDA ent : ~Hidden(ent))]]]

\* The views of a document: get_text and get_page_text of every page.
Views(c) ==
  <<get_text(c)>> \o [p \in 1..Len(c.pages) |-> get_page_text(c, p - 1)]

\* The tokens of the elements that are visible and safe (two elements may carry
\* the same text).
ShownTokens == UNION {OwnTokens(Flat[i].el) : i \in {j \in DOMAIN Flat : ~Hidden(Flat[j])}}

\* C19: neither get_text nor get_page_text emits the text, the translation or
\* an omission marker for an element that is not visible or not safe: the views
\* hold no token that only such elements carry and are the views of the document
\* without these elements; so after a toggle made an element invisible, or a
\* margin change made it unsafe, nothing of it is left in either view.
C19_HiddenNotEmitted ==
  LET views == Views(Ctx)
      hidden_only ==
        UNION {OwnTokens(Flat[i].el) : i \in {j \in DOMAIN Flat : Hidden(Flat[j])}}
        \ ShownTokens
  IN /\ \A v \in DOMAIN views :
           /\ views[v].res = "returned"
           /\ hidden_only \cap SeqRange(views[v].val) = {}
     /\ views = Views(WithoutHidden(Ctx))

\* A toggle hid the translated head of a chain whose translation the document
\* view held before.
C19_Witness ==
  /\ last.op = "toggle_visibility" /\ last.res = "returned"
  /\ ~ElemOf(last.k1).visible
  /\ ElemOf(last.k1).translated # <<>>
  /\ SeqRange(ElemOf(last.k1).translated) \cap SeqRange(get_text(pre).val) # {}
  /\ last.k1 \in DOMAIN pre.chains


\* The entry of pages in the place of the entry of pre.pages, with one field of
\* the element put back to its old value.
SameBut(new, old, field) ==
  new.key = old.key /\ [new.el EXCEPT ![field] = old.el[field]] = old.el

FieldOf(op) ==
  IF op = "toggle_visibility" THEN "visible"
  ELSE IF op = "toggle_body" THEN "body" ELSE "contd"

\* C20: the toggles, move_element and set_safe_margin create and destroy no
\* element: every page keeps its set of keys, every key its element, and
\* context.index stays; a toggle of an existing key changes the named flag (or
\* the marker) of that element and nothing else; only split_element and merge
\* change the set of keys.
C20_Frame ==
  /\ last.op \in {"toggle_visibility", "toggle_body", "toggle_continue",
                  "move_element", "set_safe_margin"}
     => /\ index = pre.index
        /\ Len(pages) = Len(pre.pages)
        /\ \A p \in DOMAIN pages :
              /\ KeysOfPage(pages[p]) = KeysOfPage(pre.pages[p])
              /\ Len(pages[p].elements) = Len(pre.pages[p].elements)
              /\ pages[p].width = pre.pages[p].width
              /\ pages[p].height = pre.pages[p].height
  /\ last.op \in {"toggle_visibility", "toggle_body", "toggle_continue"}
     => \A p \in DOMAIN pages : \A i \in DOMAIN pages[p].elements :
           LET new == pages[p].elements[i]
               old == pre.pages[p].elements[i]
           IN IF old.key = last.k1
              THEN /\ SameBut(new, old, FieldOf(last.op))
                   /\ last.res = "returned"
                   /\ new.el[FieldOf(last.op)] # old.el[FieldOf(last.op)]
              ELSE new = old
  /\ last.op = "set_safe_margin"
     => \A p \in DOMAIN pages : \A i \in DOMAIN pages[p].elements :
           SameBut(pages[p].elements[i], pre.pages[p].elements[i], "safe")
  /\ last.op = "move_element"
     => \A p \in DOMAIN pages :
           SeqRange(pages[p].elements) = SeqRange(pre.pages[p].elements)
  /\ KeysOf(pages) # KeysOf(pre.pages) => last.op \in {"split_element", "merge"}

\* A body toggle of an element of a page of several elements, after an earlier
\* split or merge of the session.
C20_Witness ==
  /\ last.op = "toggle_body"
  /\ last.k1 \in KeysOf(pages)
  /\ ~ElemOf(last.k1).body
  /\ Len(pages[PageOf(last.k1)].elements) > 1
  /\ pre.index > EditDoc.index


C22_Loaded ==
  last.op = "open" /\ last.found = "snapshot" /\ ~last.ignore_cache

C23_LoadFailureSurfaced ==
  (last.op = "open" /\ last.found = "corrupt" /\ ~last.ignore_cache)
  => LET none == Pdf_init(NoFile, FALSE)
     IN <<last.res, last.ret, Ctx, disk>> # <<none.res, none.ret, none.ctx, none.disk>>


\* An element takes part in chain reconstruction when it is visible, safe and body.
TakesPart(e) == e.visible /\ e.safe /\ e.body

\* The pages without the elements that take no part.
Pruned ==
  [p \in DOMAIN pages |->
     [pages[p] EXCEPT !.elements = SelectSeq(@, LAMBDA ent : TakesPart(ent.el))]]

\* The entries that take part, in scan order.
Parts == SelectSeq(Flat, LAMBDA ent : TakesPart(ent.el))

\* C24: elements that are not visible, safe and body are transparent to
\* build_chain_list: none of their keys is in to_chain or chains, and the maps
\* are those of the document with these elements deleted, so such an element
\* between two members of a chain neither closes nor interrupts the chain nor
\* changes the separator.
C24_Transparent ==
  /\ \A k \in (DOMAIN to_chain) \cup (DOMAIN chains) :
        k \in KeysOf(pages) /\ TakesPart(ElemOf(k))
  /\ chains = build_chain_list(Pruned).chains
  /\ to_chain = build_chain_list(Pruned).to_chain

\* After a rebuild, a chain runs from the first page to the second over an
\* ineligible last element of the first page and an ineligible first element
\* of the second.
C24_Witness ==
  /\ out.q = "build_chain_list"
  /\ \E h \in DOMAIN chains :
        /\ Len(Members(h)) = 2
        /\ PageOf(Members(h)[1].key) # PageOf(Members(h)[2].key)
        /\ Pos(Members(h)[2].key) = Pos(h) + 3
        /\ ~Flat[Pos(h) + 1].el.body
        /\ ~Flat[Pos(h) + 2].el.visible
        /\ Flat[Pos(h) + 1].el.contd # Flat[Pos(h)].el.contd

\* C25: after build_chain_list a key is in to_chain exactly when its element is
\* eligible and its own marker, or the marker of the nearest eligible element
\* before it, is not None; a key is a head exactly when its element is eligible
\* with a marker other than None and the nearest eligible element before it, if
\* there is one, has marker None.
C25_Membership ==
  /\ DOMAIN to_chain \subseteq {Parts[i].key : i \in DOMAIN Parts}
  /\ \A i \in DOMAIN Parts :
        LET own == Parts[i].el.contd # NoContd
            before == i > 1 /\ Parts[i - 1].el.contd # NoContd
        IN /\ (Parts[i].key \in DOMAIN to_chain) <=> (own \/ before)
           /\ (Get(to_chain, Parts[i].key) = Parts[i].key) <=> (own /\ ~before)

\* After a rebuild the document has a standalone line, a head, and a
\* continuation with a marker of its own that is no head.
C25_Witness ==
  /\ out.q = "build_chain_list"
  /\ \E i, j, l \in DOMAIN Parts :
        /\ Parts[i].key \notin DOMAIN to_chain
        /\ Get(to_chain, Parts[j].key) = Parts[j].key
        /\ Parts[l].el.contd # NoContd
        /\ Parts[l].key \in DOMAIN to_chain
        /\ to_chain[Parts[l].key] # Parts[l].key

\* C26: after build_chain_list the keys of chains are exactly the keys h with
\* to_chain[h] = h, a chain open at the end of the document included, so
\* chains[to_chain[k]] is defined for every k of to_chain and the lookups of
\* get_chained_text, get_page_text and get_text do not fail.
C26_HeadsCommitted ==
  /\ DOMAIN chains = {h \in DOMAIN to_chain : to_chain[h] = h}
  /\ \A k \in DOMAIN to_chain : to_chain[k] \in DOMAIN chains
  /\ out.q \in {"get_text", "get_page_text"} => out.res = "returned"

\* A view was asked of a document whose last chain is open at the end.
C26_Witness ==
  /\ out.q = "get_text"
  /\ Parts # <<>>
  /\ Parts[Len(Parts)].el.contd # NoContd
  /\ Len(Members(to_chain[Parts[Len(Parts)].key])) >= 2


\* The entries of page p whose box meets the safe rectangle of margin m.
InsideOn(p, m) ==
  SelectSeq(pages[p].elements,
            LAMBDA ent : ~SeparatedFrom(ent.el.bbox, SafeRect(pages[p], m)))

RECURSIVE InsideFrom(_, _)
InsideFrom(p, m) ==
  IF p > Len(pages) THEN <<>> ELSE InsideOn(p, m) \o InsideFrom(p + 1, m)

\* The visible body entries that pass the overlap test under m, in scan order.
EligibleUnder(m) ==
  SelectSeq(InsideFrom(1, m), LAMBDA ent : ent.el.visible /\ ent.el.body)

\* C27: set_safe_margin(m) replaces the margin, then re-evaluates the safe flag
\* on all pages, then rebuilds the chains: after it returns the margin is m,
\* to_chain has no key of an element that fails the overlap test under m, and
\* has every element eligible under m that the membership rule puts in a chain.
C27_MarginOrder ==
  last.op = "set_safe_margin" =>
    LET m == last.margin
        inside == {InsideFrom(1, m)[i].key : i \in DOMAIN InsideFrom(1, m)}
        now == EligibleUnder(m)
    IN /\ last.res = "returned"
       /\ margin = m
       /\ DOMAIN to_chain \subseteq inside
       /\ \A i \in DOMAIN now :
             (\/ now[i].el.contd # NoContd
              \/ i > 1 /\ now[i - 1].el.contd # NoContd)
                => now[i].key \in DOMAIN to_chain

\* A margin change brought an element that was outside the safe area before
\* back into a chain.
C27_Witness ==
  /\ last.op = "set_safe_margin"
  /\ margin # pre.margin
  /\ \E k \in DOMAIN to_chain :
        /\ k \notin DOMAIN pre.to_chain
        /\ \E p \in DOMAIN pre.pages : \E i \in DOMAIN pre.pages[p].elements :
              pre.pages[p].elements[i].key = k /\ ~pre.pages[p].elements[i].el.safe


\* C28: context.index never decreases and is greater than every key on the
\* pages in every reachable state; a split that replaces an element raises it
\* by the number of children, a merge that replaces elements raises it by 1, and
\* every other call, and every call that changes nothing or raises, leaves it.
C28_IndexMonotone ==
  /\ \A k \in KeysOf(pages) : k < index
  /\ index >= pre.index
  /\ last.res = "raised" => index = pre.index
  /\ index - pre.index =
       IF last.op = "split_element" /\ C14_Target # {}
       THEN LET loc == CHOOSE l \in C14_Target : TRUE
            IN Len(pre.pages[loc[1]].elements[loc[2]].el.children)
       ELSE IF last.op = "merge" /\ pages # pre.pages THEN 1
       ELSE 0

\* A merge took the key that an earlier split left as the next one.
C28_Witness ==
  /\ last.op = "merge"
  /\ steps = 2
  /\ index = pre.index + 1
  /\ pre.index \in KeysOf(pages)
  /\ pre.index - 1 \in KeysOf(pre.pages)


\* The translation workers started and not yet finished.
Translating == {i \in DOMAIN threads : threads[i].kind = "translate"}

\* The keys whose translated text differs from what it was before the last step.
Rewritten ==
  {k \in KeysOf(pages) :
     \E p \in DOMAIN pre.pages : \E i \in DOMAIN pre.pages[p].elements :
        /\ pre.pages[p].elements[i].key = k
        /\ pre.pages[p].elements[i].el.translated # ElemOf(k).translated}

\* C29: the workers of translation, Markdown export and knowledge-graph
\* generation neither read nor write the document model: a worker's step leaves
\* the context as it was, what it posts is made from the text captured by the
\* handler that started it, the captured text is the chained text at the time of
\* the request, and translated is written only by the completion callback on
\* the UI thread, which then saves the context; so the snapshot is the context
\* after every step.
C29_WorkersIsolated ==
  /\ last.op \in {"worker", "start_translation", "export", "generate_kg",
                  "left_click"} => Untouched
  /\ \A i \in DOMAIN threads :
        threads[i].result # <<>> =>
           threads[i].result = IF threads[i].kind = "translate"
                               THEN <<"zh">> \o threads[i].text
                               ELSE <<"md">> \o threads[i].text
  /\ (last.op = "start_translation" /\ last.ret = "started") =>
        /\ threads # <<>>
        /\ threads[Len(threads)].phase = "running"
        /\ threads[Len(threads)].text = C18_Expected(last.k1).text
  /\ Rewritten # {} =>
        /\ last.op = "finish" /\ last.ret = "stored"
        /\ Rewritten = {last.k1}
  /\ disk = save_to_pickle(Ctx)

\* A completion callback stored a result on a head whose chain had changed
\* while the worker ran, and another worker is still running.
C29_Witness ==
  /\ last.op = "finish"
  /\ last.ret = "stored"
  /\ last.k1 \in DOMAIN chains
  /\ ElemOf(last.k1).translated # <<>>
  /\ ElemOf(last.k1).translated # <<"zh">> \o chains[last.k1].text
  /\ \E i \in DOMAIN threads : threads[i].phase = "running"

\* C30: at most one translation job is in flight per head key: no two workers
\* have the same head key, _translation_jobs holds exactly the head keys of the
\* workers started and not yet finished, and the completion callback takes its
\* head key out on success and on failure, under every interleaving of requests,
\* worker completions and visibility toggles.
C30_OneJobPerHead ==
  /\ \A i, j \in Translating : threads[i].head = threads[j].head => i = j
  /\ jobs = {threads[i].head : i \in Translating}
  /\ last.op = "finish" => last.k1 \notin jobs
  /\ (last.op = "start_translation" /\ last.ret = "busy") =>
        \E i \in Translating : threads[i].head = C18_Expected(last.k1).key

\* A request for a continuation was turned down because its head has a job,
\* after a visibility toggle.
C30_Witness ==
  /\ last.op = "start_translation"
  /\ last.ret = "busy"
  /\ last.k1 \notin jobs
  /\ Get(to_chain, last.k1) \in jobs
  /\ pre = Ctx
  /\ \E k \in KeysOf(pages) : ~ElemOf(k).visible

=============================================================================
